---- MODULE Spec2Model ----
(***************************************************************************)
(* A model of the document ingestion pipeline of ragFirst:                 *)
(*   - UnifiedDocumentProcessor.process_document and its worker pool       *)
(*     (src/src/unified_document_processor.py), with the page classifier   *)
(*     (src/src/pdf_analyzer.py), under specification Spec (every short    *)
(*     document) and LongSpec (a document of LongPages pages);             *)
(*   - the same on a document with more pages than the pool has threads,   *)
(*     under PoolSpec, and behind DocumentProcessor.process_pdf and its    *)
(*     stamping step (src/src/document_processor.py), under PdfSpec;       *)
(*   - SimpleChunker.chunk_text and process_document_results               *)
(*     (src/src/simple_chunker.py), under specification ChunkSpec;         *)
(*   - PDFAnalyzer.analyze_document's loop and classify_page's rule        *)
(*     (src/src/pdf_analyzer.py), under AnalyzerSpec, confidences being    *)
(*     held as hundredths;                                                 *)
(*   - the table loop of NativePDFProcessor.process_native_page            *)
(*     (src/src/native_pdf_processor.py), under TableSpec.                 *)
(*                                                                         *)
(* A progress fraction f is held as the integer f * 100 * Den, Den being   *)
(* the page count of the document (1 for an empty document), so that       *)
(* 0.1 + 0.8 * (k / N) is the exact integer 10*N + 80*k.  The order of the *)
(* floating-point values the code computes agrees with the order of these  *)
(* integers for every N up to 40 (checked by evaluating both).             *)
(***************************************************************************)
EXTENDS Integers, Sequences, FiniteSets, TLC

\* ------------------------------------------------------------------ bounds
MaxPages == 2
LongPages == 17
MaxChunk == 5
MaxOverlap == 3
MaxTokens == 12
MaxIter == 14
PoolPages == 7
MaxTextLength == 51
MaxProbedPages == 3
MaxTableRows == 3
MaxTableCols == 2
MaxTables == 2
MaxMapPages == 2
MaxMapChunk == 3
MaxMapOverlap == 1
MaxGarbled == 1
MaxElements == 2
MaxHangPages == 2

\* ------------------------------------------------------- program constants
MaxWorkers == 5
Stage10 == 10
Stage15 == 15
Stage95 == 95
Stage100 == 100
PageBase == 10
PageWeight == 80
PageCap == 90
MinTextThreshold == 50
ConfidenceNoText == 90
ConfidenceLittleText == 70
ConfidenceChars == 95
ConfidenceNoChars == 60
ConfidenceError == 0
PrefixLength == 50
CharsPerToken == 3

VARIABLES
    doc,                  \* the PDF: whether it opens, and its pages
    progress_callback,    \* the caller's callback: absent, or when it raises
    pc,                   \* process_document's position
    page_classifications, \* analyze_document's result
    results,              \* process_document's results dict
    page_results,         \* _process_pages_parallel's pre-sized array
    ppc,                  \* each submitted page task's position
    completed_pages,      \* update_progress's counter
    progress_log,         \* the values the callback has received, in order
    chunk_size,           \* SimpleChunker.chunk_size
    overlap_size,         \* SimpleChunker.overlap_size
    ntokens,              \* len(tokens) of the text being chunked
    start_idx,            \* chunk_text's start_idx
    chunk_index,          \* chunk_text's chunk_index
    chunks,               \* chunk_text's chunks list
    cpc,                  \* the chunker's position
    extractor_calls,      \* the extractor calls made: <<extractor, page index>>
    pdf_pages,            \* analyze_document's pdf.pages: what each page shows
    analysis,             \* analyze_document's results list
    apc,                  \* analyze_document's position
    found_tables,         \* process_native_page's tables: what find_tables found
    extracted_tables,     \* process_native_page's extracted_tables list
    table_idx,            \* the number of found tables the loop has handled
    tpc,                  \* the table loop's position
    upages,               \* unified_results["pages"] given to the chunker
    garbled,              \* the chunk indices whose tokens decode to other text
    pages_content,        \* _process_with_full_concatenation's pages_content
    full_text,            \* its full_text, as a sequence of characters
    page_mappings,        \* its page_mappings
    chunk_meta,           \* the page fields it sets on each chunk
    native_page,          \* what a native page holds, and the step that raises
    native_result,        \* process_native_page's result dict
    npc                   \* process_native_page's position

docVars == <<doc, progress_callback, pc, page_classifications, results,
             page_results, ppc, completed_pages, progress_log,
             extractor_calls>>
chunkVars == <<chunk_size, overlap_size, ntokens, start_idx, chunk_index,
               chunks, cpc>>
analyzerVars == <<pdf_pages, analysis, apc>>
tableVars == <<found_tables, extracted_tables, table_idx, tpc>>
mapVars == <<upages, garbled, pages_content, full_text, page_mappings,
             chunk_meta>>
nativeVars == <<native_page, native_result, npc>>
sideVars == <<pdf_pages, analysis, apc,
              found_tables, extracted_tables, table_idx, tpc,
              upages, garbled, pages_content, full_text, page_mappings,
              chunk_meta, native_page, native_result, npc>>
vars == <<doc, progress_callback, pc, page_classifications, results,
          page_results, ppc, completed_pages, progress_log,
          chunk_size, overlap_size, ntokens, start_idx, chunk_index,
          chunks, cpc, extractor_calls,
          pdf_pages, analysis, apc,
          found_tables, extracted_tables, table_idx, tpc,
          upages, garbled, pages_content, full_text, page_mappings,
          chunk_meta, native_page, native_result, npc>>

Min(a, b) == IF a <= b THEN a ELSE b
Max(a, b) == IF a >= b THEN a ELSE b

RECURSIVE SumOver(_, _)
SumOver(s, field) ==
    IF s = <<>> THEN 0
    ELSE (IF field = "images" THEN Head(s).images ELSE Head(s).tables)
         + SumOver(Tail(s), field)

\* A dict key that is not set.
Absent == "absent"

\* -------------------------------------------------------------- the inputs
\* One page of the input PDF: what the classifier's probe finds ("error":
\* the probe raises), how the page's extractor ends, and what it extracts.
PageKinds ==
    { [probe |-> "native",  outcome |-> "success", images |-> 1, tables |-> 1],
      [probe |-> "scanned", outcome |-> "success", images |-> 1, tables |-> 0],
      [probe |-> "native",  outcome |-> "failed",  images |-> 0, tables |-> 0],
      [probe |-> "native",  outcome |-> "raised",  images |-> 0, tables |-> 0],
      [probe |-> "scanned", outcome |-> "failed",  images |-> 0, tables |-> 0],
      [probe |-> "scanned", outcome |-> "raised",  images |-> 0, tables |-> 0],
      [probe |-> "scanned", outcome |-> "no_image", images |-> 0, tables |-> 0],
      [probe |-> "error",   outcome |-> "none",    images |-> 0, tables |-> 0] }

LongPage == [probe |-> "native", outcome |-> "success", images |-> 1, tables |-> 1]

SeqsUpTo(S, n) == UNION { [1..k -> S] : k \in 0..n }

\* The documents: every short one, and one that cannot be opened.
Documents ==
    { [opens |-> TRUE, pages |-> p] : p \in SeqsUpTo(PageKinds, MaxPages) }
    \cup { [opens |-> FALSE, pages |-> <<>>] }

\* A long document of pages that all extract.
LongDocument == [opens |-> TRUE, pages |-> [i \in 1..LongPages |-> LongPage]]

NumPages == Len(doc.pages)
Den == Max(NumPages, 1)

StageValues == {Stage10, Stage15, Stage95, Stage100}

\* The callbacks: none; one that never raises; one that raises at one stage
\* boundary; one that raises at some of the per-page calls, told apart by the
\* "(k/N)" of their message.
Callbacks(n) ==
    { [present |-> FALSE, stages |-> {}, counts |-> {}] }
    \cup { [present |-> TRUE, stages |-> {}, counts |-> c] : c \in SUBSET (1..n) }
    \cup { [present |-> TRUE, stages |-> {s}, counts |-> {}] : s \in StageValues }

QuietCallback == [present |-> TRUE, stages |-> {}, counts |-> {}]

\* ------------------------------------------------------------- the results
NoneResult ==
    [page_number |-> 0, type |-> "None", content |-> "", status |-> Absent,
     error |-> Absent, images |-> 0, tables |-> 0, classification |-> Absent]

InitialResults ==
    [pages |-> <<>>,
     summary |-> [total_pages |-> 0, scanned_pages |-> 0, native_pages |-> 0,
                  total_images |-> 0, total_tables |-> 0,
                  processing_time_set |-> FALSE],
     status |-> "success",
     errors |-> <<>>]

\* ------------------------------------------------------------ the analyzer
\* What a page shows classify_page: the length of its stripped text and
\* whether it has character records, or that probing it raises.
RaisingProbe == [raises |-> TRUE, text_length |-> 0, has_chars |-> FALSE]

Probes(lengths) ==
    { [raises |-> FALSE, text_length |-> t, has_chars |-> h] :
          t \in lengths, h \in BOOLEAN }
    \cup { RaisingProbe }

\* What a page of the pipeline's input shows the classifier.
ProbeOf(page) ==
    IF page.probe = "error" THEN RaisingProbe
    ELSE IF page.probe = "native"
    THEN [raises |-> FALSE, text_length |-> MinTextThreshold, has_chars |-> TRUE]
    ELSE [raises |-> FALSE, text_length |-> 0, has_chars |-> FALSE]

\* A classifier whose threshold is inclusive: a text of exactly the threshold
\* length is still taken for a scan.
ClassifyPageInclusive(page_num, page) ==
    [page_number |-> page_num, text_length |-> page.text_length,
     has_chars |-> page.has_chars,
     classification |-> IF page.text_length <= MinTextThreshold
                        THEN "scanned" ELSE "native",
     confidence |-> IF page.text_length <= MinTextThreshold
                    THEN (IF page.text_length = 0
                          THEN ConfidenceNoText ELSE ConfidenceLittleText)
                    ELSE (IF page.has_chars
                          THEN ConfidenceChars ELSE ConfidenceNoChars),
     reason |-> IF page.text_length <= MinTextThreshold THEN "below threshold"
                ELSE IF page.has_chars THEN "has chars" ELSE "uncertain",
     error |-> Absent]

classify_page(page_num, page) ==
    IF page.text_length < MinTextThreshold
    THEN [page_number |-> page_num, text_length |-> page.text_length,
          has_chars |-> page.has_chars, classification |-> "scanned",
          confidence |-> IF page.text_length = 0
                         THEN ConfidenceNoText ELSE ConfidenceLittleText,
          reason |-> "below threshold", error |-> Absent]
    ELSE IF page.has_chars
    THEN [page_number |-> page_num, text_length |-> page.text_length,
          has_chars |-> page.has_chars, classification |-> "native",
          confidence |-> ConfidenceChars,
          reason |-> "has chars", error |-> Absent]
    ELSE [page_number |-> page_num, text_length |-> page.text_length,
          has_chars |-> page.has_chars, classification |-> "native",
          confidence |-> ConfidenceNoChars,
          reason |-> "uncertain", error |-> Absent]

\* The body of analyze_document's loop for one page: the try and the except.
AnalyzeEntry(page_num, page) ==
    IF page.raises
    THEN [page_number |-> page_num, text_length |-> Absent,
          has_chars |-> Absent, classification |-> "error",
          confidence |-> ConfidenceError, reason |-> Absent,
          error |-> "probe raised"]
    ELSE classify_page(page_num, page)

analyze_document(d) ==
    [i \in 1..Len(d.pages) |-> AnalyzeEntry(i, ProbeOf(d.pages[i]))]

\* A count that takes the pages whose probe raised along with each class.
CountClassWithErrors(cls, c) ==
    Cardinality({ i \in 1..Len(cls) : cls[i].classification \in {c, "error"} })

CountClass(cls, c) == Cardinality({ i \in 1..Len(cls) : cls[i].classification = c })

\* ---------------------------------------------------------- the extractors
\* VisionProcessor.process_scanned_page when it returns: without an image of
\* the page a dict with no "status" key, after the API call the text or the
\* exception the call raised.
process_scanned_page(page_num, page) ==
    IF page.outcome = "no_image"
    THEN [status |-> Absent, text |-> "", images |-> 0, tables |-> 0,
          error |-> "Failed to convert PDF page to image"]
    ELSE IF page.outcome = "success"
    THEN [status |-> "success", text |-> "text", images |-> page.images,
          tables |-> page.tables, error |-> Absent]
    ELSE [status |-> "error", text |-> "", images |-> 0, tables |-> 0,
          error |-> "extractor error"]

\* outcome "raised": process_scanned_page raises before its own try (the
\* conversion raises), and the except branch reports str(e); a result
\* without "status" makes result["status"] raise KeyError('status').
_process_scanned_page(page_num, page) ==
    IF page.outcome = "raised"
    THEN [page_number |-> page_num, type |-> "scanned", content |-> "",
          status |-> "error", error |-> "exception",
          images |-> 0, tables |-> 0, classification |-> Absent]
    ELSE LET result == process_scanned_page(page_num, page)
         IN IF result.status = Absent
            THEN [page_number |-> page_num, type |-> "scanned", content |-> "",
                  status |-> "error", error |-> "'status'",
                  images |-> 0, tables |-> 0, classification |-> Absent]
            ELSE IF result.status = "success"
            THEN [page_number |-> page_num, type |-> "scanned",
                  content |-> result.text, status |-> "success",
                  error |-> Absent, images |-> result.images,
                  tables |-> result.tables, classification |-> Absent]
            ELSE [page_number |-> page_num, type |-> "scanned", content |-> "",
                  status |-> "error", error |-> result.error,
                  images |-> 0, tables |-> 0, classification |-> Absent]

\* A native extractor that keeps what it had extracted when it fails.
NativeKeepsPartialContent(page_num, page) ==
    [page_number |-> page_num, type |-> "native", content |-> "text",
     status |-> IF page.outcome = "success" THEN "success" ELSE "error",
     error |-> IF page.outcome = "success" THEN Absent ELSE "exception",
     images |-> page.images, tables |-> page.tables,
     classification |-> Absent]

_process_native_page(page_num, page) ==
    IF page.outcome = "success"
    THEN [page_number |-> page_num, type |-> "native", content |-> "text",
          status |-> "success", error |-> Absent,
          images |-> page.images, tables |-> page.tables,
          classification |-> Absent]
    ELSE [page_number |-> page_num, type |-> "native", content |-> "",
          status |-> "error",
          error |-> IF page.outcome = "failed" THEN "extractor error" ELSE "exception",
          images |-> 0, tables |-> 0, classification |-> Absent]

\* A dispatch that sends every page that is not scanned to the native
\* extractor.
ExtractorNativeByDefault(page_class) ==
    IF page_class.classification = "scanned" THEN "vision" ELSE "native"

\* The extractor process_single_page hands a page of this classification to.
Extractor(page_class) ==
    IF page_class.classification = "scanned" THEN "vision"
    ELSE IF page_class.classification = "native" THEN "native"
    ELSE "none"

\* The try branch of process_single_page, up to the result it stores, for
\* page idx of the classifications cls of the pages `pages`.
PageResultOf(cls, pages, idx) ==
    LET page_class == cls[idx]
        page_num == page_class.page_number
        page_result ==
            IF Extractor(page_class) = "vision"
            THEN _process_scanned_page(page_num, pages[idx])
            ELSE IF Extractor(page_class) = "native"
            THEN _process_native_page(page_num, pages[idx])
            ELSE [page_number |-> page_num, type |-> "error", content |-> "",
                  status |-> Absent, error |-> page_class.error,
                  images |-> 0, tables |-> 0, classification |-> Absent]
    IN [page_result EXCEPT !.classification = page_class.classification]

PageResult(idx) == PageResultOf(page_classifications, doc.pages, idx)

\* The except branch of process_single_page.
ExceptResult(idx) ==
    LET page_class == page_classifications[idx]
    IN [page_number |-> page_class.page_number, type |-> "error",
        content |-> "", status |-> Absent, error |-> "callback raised",
        images |-> 0, tables |-> 0,
        classification |-> page_class.classification]

\* ------------------------------------------------------------ the progress
StageValue(s) == s * Den

\* A progress value that spreads the pages over 0.1 .. 1.0, without a cap.
PageProgressToOne(k, total) == PageBase * total + (PageWeight + PageBase) * k

PageProgress(k, total) ==
    Min(PageBase * total + PageWeight * Min(k, total), PageCap * total)

StageRaises(s) == progress_callback.present /\ s \in progress_callback.stages

LogStage(s) ==
    IF progress_callback.present
    THEN Append(progress_log, [kind |-> "stage", value |-> StageValue(s)])
    ELSE progress_log

\* The except branch of process_document.
Fail(message) ==
    /\ results' = [results EXCEPT !.status = "error",
                                  !.errors = Append(@, message)]
    /\ pc' = "done"

\* ------------------------------------------------- process_document's steps
Begin ==
    /\ pc = "start"
    /\ progress_log' = LogStage(Stage10)
    /\ IF StageRaises(Stage10)
       THEN Fail("callback raised")
       ELSE pc' = "analyze" /\ UNCHANGED results
    /\ UNCHANGED <<doc, progress_callback, page_classifications, page_results,
                   ppc, completed_pages, extractor_calls,
                   chunkVars, sideVars>>

\* An analysis step whose failure ends the run without a record of it.
AnalyzeSilent ==
    /\ pc = "analyze"
    /\ IF ~doc.opens
       THEN /\ pc' = "done"
            /\ UNCHANGED <<results, page_classifications>>
       ELSE /\ page_classifications' = analyze_document(doc)
            /\ results' = [results EXCEPT
                    !.summary.total_pages = Len(page_classifications'),
                    !.summary.scanned_pages = CountClass(page_classifications', "scanned"),
                    !.summary.native_pages = CountClass(page_classifications', "native")]
            /\ pc' = "announce"
    /\ UNCHANGED <<doc, progress_callback, page_results, ppc, completed_pages,
                   progress_log, extractor_calls, chunkVars, sideVars>>

Analyze ==
    /\ pc = "analyze"
    /\ IF ~doc.opens
       THEN /\ Fail("cannot open")
            /\ UNCHANGED page_classifications
       ELSE /\ page_classifications' = analyze_document(doc)
            /\ results' = [results EXCEPT
                    !.summary.total_pages = Len(page_classifications'),
                    !.summary.scanned_pages = CountClass(page_classifications', "scanned"),
                    !.summary.native_pages = CountClass(page_classifications', "native")]
            /\ pc' = "announce"
    /\ UNCHANGED <<doc, progress_callback, page_results, ppc, completed_pages,
                   progress_log, extractor_calls,
                   chunkVars, sideVars>>

Announce ==
    /\ pc = "announce"
    /\ progress_log' = LogStage(Stage15)
    /\ IF StageRaises(Stage15)
       THEN Fail("callback raised")
       ELSE pc' = "dispatch" /\ UNCHANGED results
    /\ UNCHANGED <<doc, progress_callback, page_classifications, page_results,
                   ppc, completed_pages, extractor_calls,
                   chunkVars, sideVars>>

\* _process_pages_parallel up to the last submit.
Dispatch ==
    /\ pc = "dispatch"
    /\ page_results' = [i \in 1..Len(page_classifications) |-> NoneResult]
    /\ completed_pages' = 0
    /\ IF Min(MaxWorkers, Len(page_classifications)) <= 0
       THEN /\ Fail("max_workers must be greater than 0")
            /\ UNCHANGED ppc
       ELSE /\ ppc' = [i \in 1..Len(page_classifications) |-> "queued"]
            /\ pc' = "waiting"
            /\ UNCHANGED results
    /\ UNCHANGED <<doc, progress_callback, page_classifications, progress_log,
                   extractor_calls,
                   chunkVars, sideVars>>

InFlight == { i \in 1..Len(ppc) : ppc[i] \notin {"queued", "done"} }

\* A pool that starts a thread for every queued task.
StartPageUncapped(i) ==
    /\ pc = "waiting"
    /\ ppc[i] = "queued"
    /\ \A j \in 1..(i - 1) : ppc[j] # "queued"
    /\ ppc' = [ppc EXCEPT ![i] = "running"]
    /\ UNCHANGED <<doc, progress_callback, pc, page_classifications, results,
                   page_results, completed_pages, progress_log, extractor_calls,
                   chunkVars, sideVars>>

\* A pool thread takes the next task of the queue.
StartPage(i) ==
    /\ pc = "waiting"
    /\ ppc[i] = "queued"
    /\ \A j \in 1..(i - 1) : ppc[j] # "queued"
    /\ Cardinality(InFlight) < Min(MaxWorkers, Len(page_classifications))
    /\ ppc' = [ppc EXCEPT ![i] = "running"]
    /\ UNCHANGED <<doc, progress_callback, pc, page_classifications, results,
                   page_results, completed_pages, progress_log, extractor_calls,
                   chunkVars, sideVars>>

\* process_single_page's try branch up to the store of the result.
ExtractPage(i) ==
    /\ pc = "waiting"
    /\ ppc[i] = "running"
    /\ doc.pages[i].outcome # "hangs"
    /\ page_results' = [page_results EXCEPT ![i] = PageResult(i)]
    /\ extractor_calls' =
           IF Extractor(page_classifications[i]) = "none"
           THEN extractor_calls
           ELSE extractor_calls \cup {<<Extractor(page_classifications[i]), i>>}
    /\ ppc' = [ppc EXCEPT ![i] = "progress"]
    /\ UNCHANGED <<doc, progress_callback, pc, page_classifications, results,
                   completed_pages, progress_log, chunkVars, sideVars>>

\* update_progress, under its lock: the callback's value, if it is called.
Reports(k) == progress_callback.present /\ k <= Len(page_classifications)

PageRaises(k) == Reports(k) /\ k \in progress_callback.counts

LogPage(k) ==
    IF Reports(k)
    THEN Append(progress_log,
                [kind |-> "page",
                 value |-> PageProgress(k, Len(page_classifications))])
    ELSE progress_log

\* The update_progress call that ends the try branch.
UpdateProgress(i) ==
    /\ pc = "waiting"
    /\ ppc[i] = "progress"
    /\ completed_pages' = completed_pages + 1
    /\ progress_log' = LogPage(completed_pages')
    /\ ppc' = [ppc EXCEPT ![i] =
                  IF PageRaises(completed_pages') THEN "except" ELSE "done"]
    /\ UNCHANGED <<doc, progress_callback, pc, page_classifications, results,
                   page_results, extractor_calls,
                   chunkVars, sideVars>>

\* An except branch that also reports the failure to the document.
HandleExceptionReports(i) ==
    /\ pc = "waiting"
    /\ ppc[i] = "except"
    /\ page_results' = [page_results EXCEPT ![i] = ExceptResult(i)]
    /\ results' = [results EXCEPT !.errors = Append(@, "callback raised")]
    /\ ppc' = [ppc EXCEPT ![i] = "progress_error"]
    /\ UNCHANGED <<doc, progress_callback, pc, page_classifications,
                   completed_pages, progress_log, extractor_calls,
                   chunkVars, sideVars>>

\* The except branch's store.
HandleException(i) ==
    /\ pc = "waiting"
    /\ ppc[i] = "except"
    /\ page_results' = [page_results EXCEPT ![i] = ExceptResult(i)]
    /\ ppc' = [ppc EXCEPT ![i] = "progress_error"]
    /\ UNCHANGED <<doc, progress_callback, pc, page_classifications, results,
                   completed_pages, progress_log, extractor_calls,
                   chunkVars, sideVars>>

\* The except branch's update_progress call: if the callback raises again the
\* exception ends the task, and the as_completed loop swallows it.
UpdateProgressError(i) ==
    /\ pc = "waiting"
    /\ ppc[i] = "progress_error"
    /\ completed_pages' = completed_pages + 1
    /\ progress_log' = LogPage(completed_pages')
    /\ ppc' = [ppc EXCEPT ![i] = "done"]
    /\ UNCHANGED <<doc, progress_callback, pc, page_classifications, results,
                   page_results, extractor_calls,
                   chunkVars, sideVars>>

\* A pool that is left while tasks are still queued or running.
JoinEarly ==
    /\ pc = "waiting"
    /\ pc' = "aggregate"
    /\ UNCHANGED <<doc, progress_callback, page_classifications, results,
                   page_results, ppc, completed_pages, progress_log,
                   extractor_calls, chunkVars, sideVars>>

\* Every future has completed: the pool is left and page_results returned.
Join ==
    /\ pc = "waiting"
    /\ \A i \in 1..Len(ppc) : ppc[i] = "done"
    /\ pc' = "aggregate"
    /\ UNCHANGED <<doc, progress_callback, page_classifications, results,
                   page_results, ppc, completed_pages, progress_log, extractor_calls,
                   chunkVars, sideVars>>

Kept(s) == SelectSeq(s, LAMBDA r : r # NoneResult)

Aggregate ==
    /\ pc = "aggregate"
    /\ results' = [results EXCEPT
            !.pages = @ \o Kept(page_results),
            !.summary.total_images = @ + SumOver(Kept(page_results), "images"),
            !.summary.total_tables = @ + SumOver(Kept(page_results), "tables")]
    /\ pc' = "finalize"
    /\ UNCHANGED <<doc, progress_callback, page_classifications, page_results,
                   ppc, completed_pages, progress_log, extractor_calls,
                   chunkVars, sideVars>>

Finalize ==
    /\ pc = "finalize"
    /\ progress_log' = LogStage(Stage95)
    /\ IF StageRaises(Stage95)
       THEN Fail("callback raised")
       ELSE pc' = "complete" /\ UNCHANGED results
    /\ UNCHANGED <<doc, progress_callback, page_classifications, page_results,
                   ppc, completed_pages, extractor_calls,
                   chunkVars, sideVars>>

Complete ==
    /\ pc = "complete"
    /\ progress_log' = LogStage(Stage100)
    /\ results' = [results EXCEPT
            !.summary.processing_time_set = TRUE,
            !.status = IF StageRaises(Stage100) THEN "error" ELSE @,
            !.errors = IF StageRaises(Stage100)
                       THEN Append(@, "callback raised") ELSE @]
    /\ pc' = "done"
    /\ UNCHANGED <<doc, progress_callback, page_classifications, page_results,
                   ppc, completed_pages, extractor_calls,
                   chunkVars, sideVars>>

ChunkIdle ==
    /\ chunk_size = 0
    /\ overlap_size = 0
    /\ ntokens = 0
    /\ start_idx = 0
    /\ chunk_index = 0
    /\ chunks = <<>>
    /\ cpc = "idle"

AnalyzerIdle ==
    /\ pdf_pages = <<>>
    /\ analysis = <<>>
    /\ apc = "idle"

TableIdle ==
    /\ found_tables = <<>>
    /\ extracted_tables = <<>>
    /\ table_idx = 0
    /\ tpc = "idle"

MapIdle ==
    /\ upages = <<>>
    /\ garbled = {}
    /\ pages_content = <<>>
    /\ full_text = <<>>
    /\ page_mappings = <<>>
    /\ chunk_meta = <<>>

NativeIdle ==
    /\ native_page = [fault |-> "none", text_blocks |-> 0, tables |-> 0,
                      images |-> 0]
    /\ native_result = [status |-> Absent, error |-> Absent, text_blocks |-> 0,
                        tables |-> 0, images |-> 0, merged_content |-> ""]
    /\ npc = "idle"

DocIdle ==
    /\ pc = "start"
    /\ page_classifications = <<>>
    /\ results = InitialResults
    /\ page_results = <<>>
    /\ ppc = <<>>
    /\ completed_pages = 0
    /\ progress_log = <<>>
    /\ extractor_calls = {}

Init ==
    /\ doc \in Documents
    /\ progress_callback \in Callbacks(Len(doc.pages))
    /\ DocIdle
    /\ ChunkIdle
    /\ AnalyzerIdle
    /\ TableIdle
    /\ MapIdle
    /\ NativeIdle

\* The long document under a callback that never raises, beside the one-page
\* documents under every callback.
LongInit ==
    /\ \/ doc = LongDocument /\ progress_callback = QuietCallback
       \/ /\ doc \in { d \in Documents : Len(d.pages) = 1 }
          /\ progress_callback \in Callbacks(1)
    /\ DocIdle
    /\ ChunkIdle
    /\ AnalyzerIdle
    /\ TableIdle
    /\ MapIdle
    /\ NativeIdle

Next ==
    \/ Begin
    \/ Analyze
    \/ Announce
    \/ Dispatch
    \/ \E i \in 1..Len(ppc) : StartPage(i)
    \/ \E i \in 1..Len(ppc) : ExtractPage(i)
    \/ \E i \in 1..Len(ppc) : UpdateProgress(i)
    \/ \E i \in 1..Len(ppc) : HandleException(i)
    \/ \E i \in 1..Len(ppc) : UpdateProgressError(i)
    \/ Join
    \/ Aggregate
    \/ Finalize
    \/ Complete

Spec == Init /\ [][Next]_vars

LongSpec == LongInit /\ [][Next]_vars

\* ------------------------------------------------- more pages than workers
\* A document with more pages than the pool has threads.
PoolDocument == [opens |-> TRUE, pages |-> [i \in 1..PoolPages |-> LongPage]]

PoolInit ==
    /\ \/ doc = PoolDocument /\ progress_callback = QuietCallback
       \/ /\ doc \in { d \in Documents : Len(d.pages) = 1 }
          /\ progress_callback \in Callbacks(1)
    /\ DocIdle
    /\ ChunkIdle
    /\ AnalyzerIdle
    /\ TableIdle
    /\ MapIdle
    /\ NativeIdle

PoolSpec == PoolInit /\ [][Next]_vars

\* ------------------------------------------------------------- process_pdf
\* add_page_numbers returns the path of the stamped copy.
add_page_numbers ==
    /\ pc = "stamp"
    /\ pc' = "start"
    /\ UNCHANGED <<doc, progress_callback, page_classifications, results,
                   page_results, ppc, completed_pages, progress_log,
                   extractor_calls, chunkVars, sideVars>>

\* add_page_numbers raises (the file does not open, a page cannot be drawn
\* on, the copy cannot be saved): process_pdf has no handler, and the
\* exception leaves it.
add_page_numbers_raises ==
    /\ pc = "stamp"
    /\ pc' = "raised"
    /\ UNCHANGED <<doc, progress_callback, page_classifications, results,
                   page_results, ppc, completed_pages, progress_log,
                   extractor_calls, chunkVars, sideVars>>

PdfInit ==
    /\ doc \in Documents
    /\ progress_callback \in Callbacks(Len(doc.pages))
    /\ pc = "stamp"
    /\ page_classifications = <<>>
    /\ results = InitialResults
    /\ page_results = <<>>
    /\ ppc = <<>>
    /\ completed_pages = 0
    /\ progress_log = <<>>
    /\ extractor_calls = {}
    /\ ChunkIdle
    /\ AnalyzerIdle
    /\ TableIdle
    /\ MapIdle
    /\ NativeIdle

PdfNext ==
    \/ add_page_numbers
    \/ add_page_numbers_raises
    \/ Next

PdfSpec == PdfInit /\ [][PdfNext]_vars

\* ------------------------------------------------------------- the chunker
\* The sizes and token counts chunk_text is run on: every small one, and the
\* sizes 500 and 100 on a text of 1200 tokens.
ChunkInputs ==
    ((0..MaxChunk) \X (0..MaxOverlap) \X (0..MaxTokens))
    \cup { <<500, 100, 1200>> }

\* len(tokens[start:end]) for 0 <= start.
SliceLen(start, end, len) == Max(Min(end, len) - Min(start, len), 0)

EndIdx(start, size, len) == Min(start + size, len)

ChunkData(index, start, end, len) ==
    [chunk_index |-> index, start_token |-> start, end_token |-> end,
     token_count |-> SliceLen(start, end, len), paragraph_number |-> 0]

\* A next start with the overlap added instead of subtracted.
NextStartSkips(end, index, overlap) == end + overlap

\* A next start without the guard against a non-advancing window: the end of
\* the chunk only once the overlap would step before the first token.
NextStartUnguarded(end, index, overlap) ==
    IF end - overlap <= 0 THEN end ELSE end - overlap

\* The next start_idx, given the chunk's end and the incremented chunk_index.
NextStart(end, index, overlap) ==
    IF end - overlap <= index * overlap THEN end ELSE end - overlap

ChunkInit ==
    /\ \E in \in ChunkInputs :
          /\ chunk_size = in[1]
          /\ overlap_size = in[2]
          /\ ntokens = in[3]
    /\ start_idx = 0
    /\ chunk_index = 0
    /\ chunks = <<>>
    /\ cpc = "loop"
    /\ doc = [opens |-> FALSE, pages |-> <<>>]
    /\ progress_callback = [present |-> FALSE, stages |-> {}, counts |-> {}]
    /\ pc = "idle"
    /\ page_classifications = <<>>
    /\ results = InitialResults
    /\ page_results = <<>>
    /\ ppc = <<>>
    /\ completed_pages = 0
    /\ progress_log = <<>>
    /\ extractor_calls = {}
    /\ AnalyzerIdle
    /\ TableIdle
    /\ MapIdle
    /\ NativeIdle

\* One iteration of chunk_text's loop.  MaxIter stops the model where the
\* loop itself does not stop.
ChunkStep ==
    /\ cpc = "loop"
    /\ start_idx < ntokens
    /\ chunk_index < MaxIter
    /\ LET end_idx == EndIdx(start_idx, chunk_size, ntokens)
       IN /\ chunks' = Append(chunks,
                              ChunkData(chunk_index, start_idx, end_idx, ntokens))
          /\ chunk_index' = chunk_index + 1
          /\ start_idx' = NextStart(end_idx, chunk_index', overlap_size)
    /\ UNCHANGED <<chunk_size, overlap_size, ntokens, cpc, docVars, sideVars>>

\* The loop's exit and chunk_text's return.
ChunkReturn ==
    /\ cpc = "loop"
    /\ ~(start_idx < ntokens)
    /\ cpc' = "chunked"
    /\ UNCHANGED <<chunk_size, overlap_size, ntokens, start_idx, chunk_index,
                   chunks, docVars, sideVars>>

\* A paragraph number taken from the chunk's window.
ParagraphNumberByWindow(chunk) == chunk.end_token

\* A paragraph number that repeats the zero-based index.
ParagraphNumberZeroBased(chunk) == chunk.chunk_index

ParagraphNumber(chunk) == chunk.chunk_index + 1

\* process_document_results' numbering of the chunks chunk_text returned.
NumberParagraphs ==
    /\ cpc = "chunked"
    /\ chunks' = [k \in 1..Len(chunks) |->
                    [chunks[k] EXCEPT !.paragraph_number = ParagraphNumber(chunks[k])]]
    /\ cpc' = "returned"
    /\ UNCHANGED <<chunk_size, overlap_size, ntokens, start_idx, chunk_index,
                   docVars, sideVars>>

ChunkNext ==
    \/ ChunkStep
    \/ ChunkReturn
    \/ NumberParagraphs

ChunkSpec == ChunkInit /\ [][ChunkNext]_vars

\* ------------------------------------------------- analyze_document's loop
\* The pipeline at rest while one of its parts is run on its own.
DocUnused ==
    /\ doc = [opens |-> FALSE, pages |-> <<>>]
    /\ progress_callback = [present |-> FALSE, stages |-> {}, counts |-> {}]
    /\ pc = "idle"
    /\ page_classifications = <<>>
    /\ results = InitialResults
    /\ page_results = <<>>
    /\ ppc = <<>>
    /\ completed_pages = 0
    /\ progress_log = <<>>
    /\ extractor_calls = {}

\* The documents analyze_document is run on: one page of every text length,
\* and several pages of the lengths around the threshold.
AnalyzerInputs ==
    [1..1 -> Probes(0..MaxTextLength)]
    \cup SeqsUpTo(Probes({0, MinTextThreshold - 1, MinTextThreshold}),
                  MaxProbedPages)

AnalyzerInit ==
    /\ pdf_pages \in AnalyzerInputs
    /\ analysis = <<>>
    /\ apc = "loop"
    /\ DocUnused
    /\ ChunkIdle
    /\ TableIdle
    /\ MapIdle
    /\ NativeIdle

\* A loop that stops at the first page whose probe raises.
AnalyzePageStops ==
    /\ apc = "loop"
    /\ Len(analysis) < Len(pdf_pages)
    /\ LET page_num == Len(analysis) + 1
       IN /\ analysis' = Append(analysis,
                                AnalyzeEntry(page_num, pdf_pages[page_num]))
          /\ apc' = IF pdf_pages[page_num].raises THEN "returned" ELSE apc
    /\ UNCHANGED <<pdf_pages, docVars, chunkVars, tableVars,
                   mapVars, nativeVars>>

\* One iteration of analyze_document's loop over pdf.pages.
AnalyzePage ==
    /\ apc = "loop"
    /\ Len(analysis) < Len(pdf_pages)
    /\ LET page_num == Len(analysis) + 1
       IN analysis' = Append(analysis,
                             AnalyzeEntry(page_num, pdf_pages[page_num]))
    /\ UNCHANGED <<pdf_pages, apc, docVars, chunkVars, tableVars,
                   mapVars, nativeVars>>

AnalyzeReturn ==
    /\ apc = "loop"
    /\ Len(analysis) = Len(pdf_pages)
    /\ apc' = "returned"
    /\ UNCHANGED <<pdf_pages, analysis, docVars, chunkVars, tableVars,
                   mapVars, nativeVars>>

AnalyzerNext ==
    \/ AnalyzePage
    \/ AnalyzeReturn

AnalyzerSpec == AnalyzerInit /\ [][AnalyzerNext]_vars

\* ---------------------------------------- process_native_page's table loop
\* A table find_tables detected: the rows and columns extract() gives, and
\* whether its cells hold a digit, a currency sign or a table keyword.
TableKinds ==
    [rows : 0..MaxTableRows, cols : 1..MaxTableCols, indicator : BOOLEAN]

TableInputs == SeqsUpTo(TableKinds, MaxTables)

\* The filter of process_native_page: more than one row, and not a single
\* column of two rows or less.
KeepsTable(table) ==
    /\ table.rows > 1
    /\ ~(table.cols = 1 /\ table.rows <= 2)

TableData(table) ==
    [rows |-> table, num_rows |-> table.rows, num_cols |-> table.cols]

TableInit ==
    /\ found_tables \in TableInputs
    /\ extracted_tables = <<>>
    /\ table_idx = 0
    /\ tpc = "loop"
    /\ DocUnused
    /\ ChunkIdle
    /\ AnalyzerIdle
    /\ MapIdle
    /\ NativeIdle

\* One iteration of the loop over the found tables.
FilterTable ==
    /\ tpc = "loop"
    /\ table_idx < Len(found_tables)
    /\ LET table == found_tables[table_idx + 1]
       IN extracted_tables' =
              IF KeepsTable(table)
              THEN Append(extracted_tables, TableData(table))
              ELSE extracted_tables
    /\ table_idx' = table_idx + 1
    /\ UNCHANGED <<found_tables, tpc, docVars, chunkVars, analyzerVars,
                   mapVars, nativeVars>>

\* result["tables"] = extracted_tables: the page's tables, which the merged
\* content is built from.
TablesReturn ==
    /\ tpc = "loop"
    /\ table_idx = Len(found_tables)
    /\ tpc' = "returned"
    /\ UNCHANGED <<found_tables, extracted_tables, table_idx, docVars,
                   chunkVars, analyzerVars,
                   mapVars, nativeVars>>

TableNext ==
    \/ FilterTable
    \/ TablesReturn

TableSpec == TableInit /\ [][TableNext]_vars

\* ------------------------------------- _process_with_full_concatenation
\* The text is a sequence of characters and the tokenizer gives one token
\* per character, so that a chunk's token window is also its character
\* window in full_text.  A chunk whose index is in `garbled` is one whose
\* tokens decode to text that does not occur in full_text (a window that
\* cuts a multi-byte character), of the same length.
Chars == {"a", "b", " "}

RECURSIVE LStrip(_)
LStrip(s) == IF s # <<>> /\ Head(s) = " " THEN LStrip(Tail(s)) ELSE s

RECURSIVE RStrip(_)
RStrip(s) ==
    IF s # <<>> /\ s[Len(s)] = " " THEN RStrip(SubSeq(s, 1, Len(s) - 1)) ELSE s

Strip(s) == RStrip(LStrip(s))

\* The entries of unified_results["pages"]: a page that was extracted, with
\* any content, and the entries of the pages that were not (status "error",
\* or no status at all), whose content is empty.
\* The contents of a page: none, whitespace only, one or two characters, with
\* a space before or after.
PageContents ==
    { <<>>, <<" ">>, <<"a">>, <<"b">>, <<"a", "a">>, <<"a", "b">>, <<"b", "a">>,
      <<" ", "b">>, <<"a", " ">> }

ChunkerPageKinds ==
    { [status |-> "success", content |-> c] : c \in PageContents }
    \cup { [status |-> "error", content |-> <<>>],
           [status |-> Absent, content |-> <<>>] }

UnifiedPages ==
    { [i \in 1..Len(p) |->
          [page_number |-> i, status |-> p[i].status, content |-> p[i].content]] :
      p \in SeqsUpTo(ChunkerPageKinds, MaxMapPages) }

Garblings == { {} } \cup { {k} : k \in 0..MaxGarbled }

\* A collection that takes every page with status "success" and content,
\* whitespace-only content included.
CollectsAnyContent(page) ==
    /\ page.status = "success"
    /\ page.content # <<>>

\* The pages the first loop appends to pages_content.
CollectsPage(page) ==
    /\ page.status = "success"
    /\ page.content # <<>>
    /\ Strip(page.content) # <<>>

PagesContent(pages) ==
    LET kept == SelectSeq(pages, CollectsPage)
    IN [k \in 1..Len(kept) |->
           [content |-> Strip(kept[k].content),
            page_number |-> kept[k].page_number]]

\* ' '.join of the contents.
RECURSIVE JoinContent(_)
JoinContent(s) ==
    IF s = <<>> THEN <<>>
    ELSE IF Len(s) = 1 THEN s[1].content
    ELSE s[1].content \o <<" ">> \o JoinContent(Tail(s))

\* char_pos after the first k pages.
RECURSIVE CharPos(_, _)
CharPos(s, k) ==
    IF k = 0 THEN 0 ELSE CharPos(s, k - 1) + Len(s[k].content) + 1

PageMappings(s) ==
    [k \in 1..Len(s) |->
        [page_number |-> s[k].page_number,
         start_char |-> CharPos(s, k - 1),
         end_char |-> CharPos(s, k) - 1]]

\* str.find: the least index at which pat occurs in text, or -1.
Find(text, pat) ==
    LET hits == { i \in 0..(Len(text) - Len(pat)) :
                      SubSeq(text, i + 1, i + Len(pat)) = pat }
    IN IF hits = {} THEN -1
       ELSE CHOOSE i \in hits : \A j \in hits : i <= j

\* chunk['text']: the decoded tokens of the chunk's window.
ChunkText(chunk) ==
    IF chunk.chunk_index \in garbled
    THEN [k \in 1..(chunk.end_token - chunk.start_token) |-> "?"]
    ELSE SubSeq(full_text, chunk.start_token + 1, chunk.end_token)

\* An overlap test that takes a page the span only touches.
OverlapsTouching(start_char, end_char, page_info) ==
    /\ start_char <= page_info.end_char
    /\ end_char >= page_info.start_char

Overlaps(start_char, end_char, page_info) ==
    /\ start_char < page_info.end_char
    /\ end_char > page_info.start_char

\* The page fields the second loop sets on one chunk, with the character
\* span it located.  spans_pages = <<>> stands for the key not being set.
MapChunk(chunk) ==
    LET chunk_text == ChunkText(chunk)
        found == Find(full_text,
                      SubSeq(chunk_text, 1, Min(PrefixLength, Len(chunk_text))))
        chunk_start_char ==
            IF found = -1 THEN chunk.start_token * CharsPerToken ELSE found
        chunk_end_char == chunk_start_char + Len(chunk_text)
        chunk_pages ==
            SelectSeq(page_mappings,
                      LAMBDA page_info :
                          Overlaps(chunk_start_char, chunk_end_char, page_info))
    IN IF chunk_pages # <<>>
       THEN [page_number |-> chunk_pages[1].page_number,
             is_cross_page |-> Len(chunk_pages) > 1,
             spans_pages |-> IF Len(chunk_pages) > 1
                             THEN [k \in 1..Len(chunk_pages) |->
                                      chunk_pages[k].page_number]
                             ELSE <<>>,
             start_char |-> chunk_start_char, end_char |-> chunk_end_char]
       ELSE [page_number |-> pages_content[1].page_number,
             is_cross_page |-> FALSE,
             spans_pages |-> <<>>,
             start_char |-> chunk_start_char, end_char |-> chunk_end_char]

MapInit ==
    /\ upages \in UnifiedPages
    /\ garbled \in Garblings
    /\ chunk_size \in 1..MaxMapChunk
    /\ overlap_size \in 0..MaxMapOverlap
    /\ ntokens = 0
    /\ start_idx = 0
    /\ chunk_index = 0
    /\ chunks = <<>>
    /\ cpc = "collect"
    /\ pages_content = <<>>
    /\ full_text = <<>>
    /\ page_mappings = <<>>
    /\ chunk_meta = <<>>
    /\ DocUnused
    /\ AnalyzerIdle
    /\ TableIdle
    /\ NativeIdle

\* The first loop, the join and the offsets; without a page to chunk the
\* empty list is returned.
CollectPages ==
    /\ cpc = "collect"
    /\ pages_content' = PagesContent(upages)
    /\ IF pages_content' = <<>>
       THEN /\ cpc' = "returned"
            /\ UNCHANGED <<full_text, page_mappings, ntokens>>
       ELSE /\ full_text' = JoinContent(pages_content')
            /\ page_mappings' = PageMappings(pages_content')
            /\ ntokens' = Len(full_text')
            /\ cpc' = "loop"
    /\ UNCHANGED <<upages, garbled, chunk_meta, chunk_size, overlap_size,
                   start_idx, chunk_index, chunks, docVars, analyzerVars,
                   tableVars, nativeVars>>

\* The second loop over the chunks chunk_text returned.
MapChunks ==
    /\ cpc = "chunked"
    /\ chunk_meta' = [k \in 1..Len(chunks) |-> MapChunk(chunks[k])]
    /\ chunks' = [k \in 1..Len(chunks) |->
                    [chunks[k] EXCEPT !.paragraph_number = ParagraphNumber(chunks[k])]]
    /\ cpc' = "returned"
    /\ UNCHANGED <<upages, garbled, pages_content, full_text, page_mappings,
                   chunk_size, overlap_size, ntokens, start_idx, chunk_index,
                   docVars, analyzerVars, tableVars, nativeVars>>

MapNext ==
    \/ CollectPages
    \/ ChunkStep
    \/ ChunkReturn
    \/ MapChunks

MapSpec == MapInit /\ [][MapNext]_vars

\* ------------------------------------------------- process_native_page
\* A native page: how many text blocks, kept tables and images it holds, and
\* the step of process_native_page that raises on it, if one does.
NativeFaults == {"none", "open", "text_blocks", "tables", "images", "merge"}

NativePages ==
    [fault : NativeFaults, text_blocks : 0..MaxElements,
     tables : 0..MaxElements, images : 0..MaxElements]

NativeInit ==
    /\ native_page \in NativePages
    /\ native_result = [status |-> "success", error |-> Absent,
                        text_blocks |-> 0, tables |-> 0, images |-> 0,
                        merged_content |-> ""]
    /\ npc = "open"
    /\ DocUnused
    /\ ChunkIdle
    /\ AnalyzerIdle
    /\ TableIdle
    /\ MapIdle

\* The except branch: the status and the message are set, the rest of the
\* result is left as it is.
NativeRaise ==
    /\ native_result' = [native_result EXCEPT !.status = "error",
                                               !.error = "exception"]
    /\ npc' = "returned"

OpenNativePage ==
    /\ npc = "open"
    /\ IF native_page.fault = "open"
       THEN NativeRaise
       ELSE npc' = "text_blocks" /\ UNCHANGED native_result
    /\ UNCHANGED <<native_page, docVars, chunkVars, analyzerVars, tableVars,
                   mapVars>>

ExtractTextBlocks ==
    /\ npc = "text_blocks"
    /\ IF native_page.fault = "text_blocks"
       THEN NativeRaise
       ELSE /\ native_result' =
                   [native_result EXCEPT !.text_blocks = native_page.text_blocks]
            /\ npc' = "tables"
    /\ UNCHANGED <<native_page, docVars, chunkVars, analyzerVars, tableVars,
                   mapVars>>

ExtractTables ==
    /\ npc = "tables"
    /\ IF native_page.fault = "tables"
       THEN NativeRaise
       ELSE /\ native_result' =
                   [native_result EXCEPT !.tables = native_page.tables]
            /\ npc' = "images"
    /\ UNCHANGED <<native_page, docVars, chunkVars, analyzerVars, tableVars,
                   mapVars>>

ExtractImages ==
    /\ npc = "images"
    /\ IF native_page.fault = "images"
       THEN NativeRaise
       ELSE /\ native_result' =
                   [native_result EXCEPT !.images = native_page.images]
            /\ npc' = "merge"
    /\ UNCHANGED <<native_page, docVars, chunkVars, analyzerVars, tableVars,
                   mapVars>>

MergeContent ==
    /\ npc = "merge"
    /\ IF native_page.fault = "merge"
       THEN NativeRaise
       ELSE /\ native_result' =
                   [native_result EXCEPT !.merged_content =
                       IF native_result.text_blocks + native_result.tables
                              + native_result.images = 0
                       THEN "" ELSE "merged"]
            /\ npc' = "returned"
    /\ UNCHANGED <<native_page, docVars, chunkVars, analyzerVars, tableVars,
                   mapVars>>

NativeNext ==
    \/ OpenNativePage
    \/ ExtractTextBlocks
    \/ ExtractTables
    \/ ExtractImages
    \/ MergeContent

NativeSpec == NativeInit /\ [][NativeNext]_vars

\* ------------------------------------------ extractor calls that may hang
\* A page whose extractor call never returns: the pipeline sets no timeout on
\* the call, so the worker stays in it.
HangPage == [probe |-> "native", outcome |-> "hangs", images |-> 0, tables |-> 0]

HangKinds ==
    { HangPage, LongPage,
      [probe |-> "scanned", outcome |-> "failed", images |-> 0, tables |-> 0] }

HangDocuments ==
    { [opens |-> TRUE, pages |-> p] : p \in SeqsUpTo(HangKinds, MaxHangPages) }
    \cup { [opens |-> FALSE, pages |-> <<>>] }

HangInit ==
    /\ doc \in HangDocuments
    /\ progress_callback \in Callbacks(Len(doc.pages))
    /\ DocIdle
    /\ ChunkIdle
    /\ AnalyzerIdle
    /\ TableIdle
    /\ MapIdle
    /\ NativeIdle

\* The thread that runs process_document and waits in as_completed.
MainThread ==
    \/ Begin
    \/ Analyze
    \/ Announce
    \/ Dispatch
    \/ Join
    \/ Aggregate
    \/ Finalize
    \/ Complete

\* The pool thread that runs process_single_page for page i.
Worker(i) ==
    /\ i \in 1..Len(ppc)
    /\ \/ StartPage(i)
       \/ ExtractPage(i)
       \/ UpdateProgress(i)
       \/ HandleException(i)
       \/ UpdateProgressError(i)

\* Every thread that can run does run.
FairScheduling ==
    /\ WF_vars(MainThread)
    /\ \A i \in 1..MaxHangPages : WF_vars(Worker(i))

HangSpec == HangInit /\ [][Next]_vars /\ FairScheduling

\* ================================================================== claims
LogValue(k) == progress_log[k].value

ExtractionFailed(i) ==
    /\ page_classifications[i].classification \in {"scanned", "native"}
    /\ doc.pages[i].outcome \in {"failed", "raised", "no_image"}

IsErrorPage(r) == r.status = "error" \/ r.type = "error"

\* The document with page i's extraction made to succeed.
Healed(i) == [doc.pages EXCEPT ![i].outcome = "success"]

\* Something other than a page's extraction went wrong: the PDF does not
\* open, it has no page, or the callback raises at a stage boundary.
StageCause ==
    \/ ~doc.opens
    \/ NumPages = 0
    \/ progress_callback.stages # {}

\* C1: when process_document returns, len(pages) equals summary.total_pages
\* and the page_number values of pages are exactly 1..total_pages in order.
C1_PagesMatchTotal ==
    pc = "done" =>
        /\ Len(results.pages) = results.summary.total_pages
        /\ \A i \in 1..Len(results.pages) : results.pages[i].page_number = i

\* C2: _process_pages_parallel returns one entry per classification, entry i
\* being the result of processing classification i, whatever the order in
\* which the pages finished.
C2_ResultsByIndex ==
    pc = "aggregate" =>
        /\ Len(page_results) = Len(page_classifications)
        /\ \A i \in 1..Len(page_results) : page_results[i] = PageResult(i)

\* C3: the values passed to the progress callback never decrease and all lie
\* in [0, 1].
C3_ProgressMonotone ==
    \A k \in 1..Len(progress_log) :
        /\ 0 <= LogValue(k)
        /\ LogValue(k) <= Stage100 * Den
        /\ k > 1 => LogValue(k - 1) <= LogValue(k)

\* C4: a page whose extraction raised or reported failure has an error entry
\* with empty content; every page still gets its entry before the pool is
\* left; the entry of every other page is what it is with that page's
\* extraction succeeding; and the document's status is "error" only for a
\* cause that is not a page's extraction.
C4_FailureIsolated ==
    /\ \A i \in 1..Len(page_results) :
          (page_results[i] # NoneResult /\ ExtractionFailed(i)) =>
              /\ page_results[i].content = ""
              /\ IsErrorPage(page_results[i])
              /\ \A j \in 1..Len(page_results) :
                    (j # i /\ page_results[j] # NoneResult) =>
                        page_results[j] \in
                            { PageResultOf(page_classifications, Healed(i), j),
                              ExceptResult(j) }
    /\ pc \in {"aggregate", "finalize", "complete"} =>
          /\ Len(page_results) = NumPages
          /\ \A j \in 1..Len(page_results) : page_results[j] # NoneResult
    /\ (pc = "done" /\ ~StageCause) => results.status = "success"

\* C4's case: a two-page document returned with status "success", one page's
\* extraction having failed and the other page's entry a success.
C4_Witness ==
    /\ pc = "done"
    /\ results.status = "success"
    /\ Len(results.pages) = 2
    /\ \E i, j \in 1..2 :
          /\ i # j
          /\ ExtractionFailed(i)
          /\ results.pages[i].status = "error"
          /\ results.pages[j].status = "success"

\* What has been aggregated: every page result is in pages, the summary
\* counters are their sums, and the processing time is set.
FullyAggregated ==
    /\ Len(results.pages) = Len(page_results)
    /\ Len(results.pages) = results.summary.total_pages
    /\ results.summary.total_images = SumOver(results.pages, "images")
    /\ results.summary.total_tables = SumOver(results.pages, "tables")
    /\ results.summary.processing_time_set

\* C10: every per-page value is at most 0.9; a value of 1.0 is passed only as
\* the last call, after the document is fully aggregated, hence once; and a
\* run that returns "success" to a caller with a callback has passed it.
C10_OneOnlyAfterAggregation ==
    /\ \A k \in 1..Len(progress_log) :
          /\ progress_log[k].kind = "page" => LogValue(k) <= PageCap * Den
          /\ LogValue(k) >= Stage100 * Den =>
                /\ k = Len(progress_log)
                /\ progress_log[k].kind = "stage"
                /\ pc = "done"
                /\ FullyAggregated
    /\ (pc = "done" /\ results.status = "success" /\ progress_callback.present) =>
          /\ Len(progress_log) > 0
          /\ LogValue(Len(progress_log)) = Stage100 * Den

\* C10's case: a two-page document has returned and its callback has received
\* a per-page value for each page and 1.0 at the end.
C10_Witness ==
    /\ pc = "done"
    /\ NumPages = 2
    /\ Len(progress_log) = 6
    /\ progress_log[4].kind = "page"
    /\ LogValue(4) = PageCap * Den
    /\ LogValue(6) = Stage100 * Den

ChunkingDone == cpc \in {"chunked", "returned"}

Window(k) == <<chunks[k].start_token, chunks[k].end_token>>

\* The windows of size `size` advancing by size - overlap over len tokens, up
\* to the first one that ends at len.
RECURSIVE Windows(_, _, _, _)
Windows(k, size, overlap, len) ==
    LET start == k * (size - overlap)
        end == Min(start + size, len)
    IN IF end >= len THEN << <<start, end>> >>
       ELSE << <<start, end>> >> \o Windows(k + 1, size, overlap, len)

CeilDiv(a, b) == (a + b - 1) \div b

C6_ExactWindows ==
    (ChunkingDone /\ overlap_size < chunk_size /\ ntokens > 0) =>
        [k \in 1..Len(chunks) |-> Window(k)]
            = Windows(0, chunk_size, overlap_size, ntokens)

\* C7: with 0 <= overlap_size < chunk_size and at least one token, the loop
\* has ended after at most ceil(len(tokens) / (chunk_size - overlap_size))
\* iterations.
C7_IterationBound ==
    /\ (overlap_size < chunk_size /\ ntokens > 0) =>
          chunk_index <= CeilDiv(ntokens, chunk_size - overlap_size)
    /\ (overlap_size < chunk_size /\ ntokens > 0 /\ ChunkingDone) =>
          Len(chunks) <= CeilDiv(ntokens, chunk_size - overlap_size)

\* C8: with chunk_size >= 1, no chunk has more than chunk_size tokens, no
\* chunk starts after the end of the chunk before it, and the chunks
\* chunk_text returns cover every token 0..L-1.
C8_SizeAndCoverage ==
    chunk_size >= 1 =>
        /\ \A k \in 1..Len(chunks) :
              /\ chunks[k].token_count <= chunk_size
              /\ chunks[k].token_count = chunks[k].end_token - chunks[k].start_token
              /\ k > 1 => chunks[k].start_token <= chunks[k - 1].end_token
        /\ ChunkingDone =>
              \A t \in 0..(ntokens - 1) :
                  \E k \in 1..Len(chunks) :
                      chunks[k].start_token <= t /\ t < chunks[k].end_token

\* C8's case: chunk_text has returned at least three chunks that overlap.
C8_Witness ==
    /\ ChunkingDone
    /\ chunk_size >= 1
    /\ overlap_size >= 1
    /\ Len(chunks) >= 3
    /\ chunks[2].start_token < chunks[1].end_token

\* An iteration of the loop under overlap_size >= chunk_size moves start_idx
\* to the end of the chunk it emitted, and strictly forward.
ForcedAdvance ==
    (overlap_size >= chunk_size /\ chunks' # chunks /\ cpc = "loop") =>
        /\ start_idx' = chunks'[Len(chunks')].end_token
        /\ start_idx' > start_idx

PagesStarted == { i \in 1..Len(ppc) : ppc[i] # "queued" }

StartsAfterCompletion ==
    \A i \in 1..Len(ppc) :
        (/\ ppc[i] = "queued"
         /\ ppc'[i] # "queued"
         /\ Cardinality(PagesStarted) >= MaxWorkers)
        => \E j \in 1..Len(ppc) : ppc[j] = "done"

C11_BoundedInFlight ==
    /\ [](Cardinality(InFlight) <= Min(MaxWorkers, Len(page_classifications)))
    /\ [][StartsAfterCompletion]_vars

\* The pool is full, the sixth page is among the running ones, and a page
\* still waits.
C11_Witness ==
    /\ Len(ppc) > MaxWorkers + 1
    /\ Cardinality(InFlight) = MaxWorkers
    /\ (MaxWorkers + 1) \in InFlight
    /\ ppc[MaxWorkers + 2] = "queued"

\* C12: when analyze_document raises, process_document does not raise: it
\* returns status "error", an errors list holding the exception's message
\* and no pages, and no page extraction is ever dispatched.
AnalysisRaised == ~doc.opens /\ pc = "done" /\ ~StageRaises(Stage10)

C12_ClassificationFailureReturned ==
    /\ pc # "raised"
    /\ ~doc.opens =>
          /\ ppc = <<>>
          /\ page_results = <<>>
          /\ extractor_calls = {}
    /\ AnalysisRaised =>
          /\ results.status = "error"
          /\ results.errors # <<>>
          /\ \E k \in 1..Len(results.errors) : results.errors[k] = "cannot open"
          /\ results.pages = <<>>

C12_Witness ==
    /\ AnalysisRaised
    /\ results.status = "error"
    /\ Len(progress_log) = 1

\* C13: when add_page_numbers raises, process_pdf returns a document result
\* with status "error", a populated errors list and no pages, and the
\* exception does not reach the caller.
StampingFails == pc = "stamp" /\ pc' # "start"

ReportedInBand ==
    /\ pc' = "done"
    /\ results'.status = "error"
    /\ results'.errors # <<>>
    /\ results'.pages = <<>>

C13_StampFailureInBand == [][StampingFails => ReportedInBand]_vars

\* C14: a returned result has status "error" only when stamping or
\* classification failed before any page extraction was dispatched; once a
\* page extraction has been dispatched the returned status is "success",
\* whatever the progress callback or a later step does.
C14_ErrorOnlyBeforeDispatch ==
    pc = "done" =>
        /\ results.status = "error" => (~doc.opens /\ ppc = <<>>)
        /\ ppc # <<>> => results.status = "success"

\* C15: the stages follow the order Stamping, Classifying,
\* ParallelExtracting, Aggregating and end in Done or Failed: nothing is
\* classified before the stamping has completed, every page is classified
\* before a page extraction is dispatched, and every page extraction has
\* completed before the aggregation begins.
StageAt(p, res) ==
    IF p = "stamp" THEN "Stamping"
    ELSE IF p \in {"start", "analyze"} THEN "Classifying"
    ELSE IF p \in {"announce", "dispatch", "waiting"} THEN "ParallelExtracting"
    ELSE IF p \in {"aggregate", "finalize", "complete"} THEN "Aggregating"
    ELSE IF p = "done" /\ res.status = "success" THEN "Done"
    ELSE "Failed"

StageRank(stage) ==
    CASE stage = "Stamping" -> 1
      [] stage = "Classifying" -> 2
      [] stage = "ParallelExtracting" -> 3
      [] stage = "Aggregating" -> 4
      [] stage = "Done" -> 5
      [] stage = "Failed" -> 6

StageStep ==
    LET before == StageAt(pc, results)
        after == StageAt(pc', results')
    IN /\ \/ after = before
          \/ StageRank(after) = StageRank(before) + 1
          \/ StageRank(before) <= 4 /\ after = "Failed"
       /\ page_classifications' # page_classifications =>
              before = "Classifying"
       /\ ppc' # ppc =>
              /\ before = "ParallelExtracting"
              /\ Len(page_classifications) = NumPages
       /\ results'.pages # results.pages =>
              /\ before = "Aggregating"
              /\ \A i \in 1..Len(ppc) : ppc[i] = "done"

StageState ==
    /\ StageAt(pc, results) = "Stamping" =>
          page_classifications = <<>> /\ progress_log = <<>>
    /\ StageRank(StageAt(pc, results)) <= 2 => ppc = <<>>
    /\ StageAt(pc, results) \in {"Aggregating", "Done"} =>
          /\ Len(ppc) = NumPages
          /\ \A i \in 1..Len(ppc) : ppc[i] = "done"
    /\ ~ENABLED PdfNext => StageAt(pc, results) \in {"Done", "Failed"}

C15_StageOrder == []StageState /\ [][StageStep]_vars

\* A two-page document has gone through every stage and ended in Done.
C15_Witness ==
    /\ StageAt(pc, results) = "Done"
    /\ Len(results.pages) = 2
    /\ Len(page_classifications) = 2

\* C16: a page is dispatched by its classification: a "scanned" page goes to
\* the vision extractor only, a "native" page to the native extractor only,
\* and a page of any other classification ("error" included) gets a
\* pass-through entry of type "error" with empty content, no extractor
\* being called for it.
CallsFor(i) == { call \in extractor_calls : call[2] = i }

TryBranchStored(i) == ppc[i] = "progress"

C16_DispatchByClassification ==
    \A i \in 1..Len(ppc) :
        LET class == page_classifications[i].classification
        IN /\ ppc[i] \in {"queued", "running"} => CallsFor(i) = {}
           /\ ppc[i] \notin {"queued", "running"} =>
                 /\ class = "scanned" =>
                       /\ CallsFor(i) = {<<"vision", i>>}
                       /\ TryBranchStored(i) => page_results[i].type = "scanned"
                 /\ class = "native" =>
                       /\ CallsFor(i) = {<<"native", i>>}
                       /\ TryBranchStored(i) => page_results[i].type = "native"
                 /\ class \notin {"scanned", "native"} =>
                       /\ CallsFor(i) = {}
                       /\ page_results[i].type = "error"
                       /\ page_results[i].content = ""

\* A scanned page and a page whose probe raised have both been handled.
C16_Witness ==
    /\ pc = "done"
    /\ Len(ppc) = 2
    /\ page_classifications[1].classification = "error"
    /\ page_classifications[2].classification = "scanned"
    /\ extractor_calls = {<<"vision", 2>>}
    /\ results.pages[1].type = "error"

\* C17: classify_page gives "scanned" when the stripped text is shorter than
\* the threshold of 50, with confidence 0.9 for a length of exactly 0 and
\* 0.7 otherwise, and "native" when the length is at or above the threshold,
\* with confidence 0.95 when character records exist and 0.6 otherwise.
C17_ClassificationRule ==
    \A k \in 1..Len(analysis) :
        ~pdf_pages[k].raises =>
            LET page == pdf_pages[k]
                entry == analysis[k]
            IN /\ page.text_length < 50 =>
                     /\ entry.classification = "scanned"
                     /\ entry.confidence = IF page.text_length = 0 THEN 90 ELSE 70
               /\ page.text_length >= 50 =>
                     /\ entry.classification = "native"
                     /\ entry.confidence = IF page.has_chars THEN 95 ELSE 60

\* A page one character short of the threshold and a page at the threshold
\* have been classified.
C17_Witness ==
    /\ apc = "returned"
    /\ Len(analysis) = 2
    /\ pdf_pages[1].text_length = 49
    /\ analysis[1].confidence = 70
    /\ pdf_pages[2].text_length = 50
    /\ ~pdf_pages[2].has_chars
    /\ analysis[2].confidence = 60

\* C18, as stated: analyze_document returns one classification per page in
\* page order; the entry of a page whose probe raised has classification
\* "error", confidence 0 and the exception's message as its reason, and
\* every later page is still classified.
OnePerPageInOrder ==
    /\ Len(analysis) = Len(pdf_pages)
    /\ \A k \in 1..Len(analysis) :
          /\ analysis[k].page_number = k
          /\ pdf_pages[k].raises <=> analysis[k].classification = "error"
          /\ ~pdf_pages[k].raises =>
                analysis[k].classification \in {"scanned", "native"}

RECURSIVE SumTo(_, _)
SumTo(f, n) == IF n = 0 THEN 0 ELSE f[n] + SumTo(f, n - 1)

Classified(c) ==
    { i \in 1..Len(page_classifications) :
          page_classifications[i].classification = c }

C19_SummaryCounts ==
    pc = "done" =>
        LET summary == results.summary
            pages == results.pages
        IN /\ summary.scanned_pages = Cardinality(Classified("scanned"))
           /\ summary.native_pages = Cardinality(Classified("native"))
           /\ summary.scanned_pages + summary.native_pages <= summary.total_pages
           /\ summary.total_images =
                  SumTo([k \in 1..Len(pages) |-> pages[k].images], Len(pages))
           /\ summary.total_tables =
                  SumTo([k \in 1..Len(pages) |-> pages[k].tables], Len(pages))

\* A result with a scanned page that has an image, and a page classified
\* "error" that is in neither count.
C19_Witness ==
    /\ pc = "done"
    /\ results.status = "success"
    /\ results.summary.total_pages = 2
    /\ results.summary.scanned_pages = 1
    /\ results.summary.native_pages = 0
    /\ results.summary.total_images = 1
    /\ Classified("error") # {}

\* C20: the native extractor's table filter discards a detected 1-column
\* table of at most 2 rows whose cells hold no digit, currency or
\* table-keyword content, and retains a detected 1-column, 2-row table whose
\* cells hold such an indicator, which is then among the page's tables.
InPageTables(table) ==
    \E k \in 1..Len(extracted_tables) : extracted_tables[k].rows = table

C20_TableFilter ==
    tpc = "returned" =>
        \A k \in 1..Len(found_tables) :
            LET table == found_tables[k]
            IN /\ (table.cols = 1 /\ table.rows <= 2 /\ ~table.indicator)
                     => ~InPageTables(table)
               /\ (table.cols = 1 /\ table.rows = 2 /\ table.indicator)
                     => InPageTables(table)

\* C21: for every chunk process_document_results returns, is_cross_page is
\* true, and spans_pages set, exactly when the chunk's token window spans
\* the boundary between two or more pages, and page_number is the page on
\* which the window begins, also when the same text occurs on several pages.
\* (Read on the chunks whose tokens decode to their own text.)
WindowPages(chunk) ==
    SelectSeq(page_mappings,
              LAMBDA page_info :
                  /\ chunk.start_token < page_info.end_char
                  /\ chunk.end_token > page_info.start_char)

C21_PageOfWindow ==
    cpc = "returned" =>
        \A k \in 1..Len(chunk_meta) :
            chunks[k].chunk_index \notin garbled =>
                LET window_pages == WindowPages(chunks[k])
                IN /\ chunk_meta[k].is_cross_page <=> Len(window_pages) > 1
                   /\ chunk_meta[k].spans_pages # <<>> <=> chunk_meta[k].is_cross_page
                   /\ window_pages # <<>> =>
                         chunk_meta[k].page_number = window_pages[1].page_number

\* C22: a page whose extraction failed (status not "success") or whose
\* content is empty or whitespace-only gives no text to the concatenated
\* document and no entry to the page-offset table, so the page_number of
\* every chunk, and every element of spans_pages, is the page_number of a
\* successfully extracted page with content.
Usable(i) ==
    /\ upages[i].status = "success"
    /\ \E k \in 1..Len(upages[i].content) : upages[i].content[k] # " "

UsablePages == { upages[i].page_number : i \in { j \in 1..Len(upages) : Usable(j) } }

UsableLength ==
    SumTo([i \in 1..Len(upages) |->
              IF Usable(i) THEN Len(Strip(upages[i].content)) ELSE 0],
          Len(upages))

C22_OnlyUsablePages ==
    /\ cpc # "collect" =>
          /\ { pages_content[k].page_number : k \in 1..Len(pages_content) }
                = UsablePages
          /\ { page_mappings[k].page_number : k \in 1..Len(page_mappings) }
                \subseteq UsablePages
          /\ Len(pages_content) = Cardinality(UsablePages)
          /\ UsablePages # {} =>
                Len(full_text) = UsableLength + Cardinality(UsablePages) - 1
    /\ cpc = "returned" =>
          \A k \in 1..Len(chunk_meta) :
              /\ chunk_meta[k].page_number \in UsablePages
              /\ \A j \in 1..Len(chunk_meta[k].spans_pages) :
                    chunk_meta[k].spans_pages[j] \in UsablePages

\* The first page failed and the chunks of the second page are returned.
C22_Witness ==
    /\ cpc = "returned"
    /\ Len(upages) = 2
    /\ upages[1].status = "error"
    /\ Len(chunk_meta) >= 2
    /\ chunk_meta[1].page_number = 2

\* C23: every entry of the returned pages list carries a status that is
\* "success" or "error", and every page that was not extracted successfully
\* (the extractor failed, the worker caught an exception, or the page was
\* classified "error") has status "error" and empty content.
C23_StatusOnEveryEntry ==
    pc = "done" =>
        \A k \in 1..Len(results.pages) :
            LET entry == results.pages[k]
            IN /\ entry.status \in {"success", "error"}
               /\ (ExtractionFailed(entry.page_number) \/ entry.type = "error") =>
                     /\ entry.status = "error"
                     /\ entry.content = ""

\* C24: when processing a scanned page fails (the vision API call raises, or
\* the page cannot be rendered to an image), the page is reported with
\* status "error", empty content and the failure's own message in its error
\* field, and the vision extractor is called at most once for the page.
FailureMessage(page) ==
    IF page.outcome = "failed" THEN "extractor error"
    ELSE IF page.outcome = "raised" THEN "exception"
    ELSE "Failed to convert PDF page to image"

C24_ScannedFailureReported ==
    \A i \in 1..Len(ppc) :
        (/\ page_classifications[i].classification = "scanned"
         /\ doc.pages[i].outcome # "success"
         /\ TryBranchStored(i)) =>
            /\ page_results[i].status = "error"
            /\ page_results[i].content = ""
            /\ page_results[i].error = FailureMessage(doc.pages[i])
            /\ Cardinality(CallsFor(i)) = 1

\* C25: when a step of the native page extraction raises (text blocks,
\* tables, images, merge), the page result has status "error" with the
\* exception's message and carries nothing of the steps that had completed:
\* its text blocks, tables, images and merged content are all empty.
C25_NoPartialResults ==
    (npc = "returned" /\ native_page.fault # "none") =>
        /\ native_result.status = "error"
        /\ native_result.error = "exception"
        /\ native_result.text_blocks = 0
        /\ native_result.tables = 0
        /\ native_result.images = 0
        /\ native_result.merged_content = ""

\* C26: a failure of one page (a page classified "error", an extractor that
\* failed, an exception caught in the page's worker) adds nothing to the
\* document's errors list: the list is left alone while the pool runs, and it
\* is non-empty only when the document's status was set to "error".
PageFailed(i) ==
    \/ page_classifications[i].classification = "error"
    \/ ExtractionFailed(i)
    \/ page_results[i] = ExceptResult(i)

C26_PageFailuresStayLocal ==
    /\ [](results.errors # <<>> => results.status = "error")
    /\ [][pc = "waiting" => results'.errors = results.errors]_vars

C26_Witness ==
    /\ pc = "done"
    /\ Len(ppc) = 2
    /\ \A i \in 1..2 : PageFailed(i)
    /\ page_classifications[1].classification = "error"
    /\ ExtractionFailed(2)
    /\ page_results[2] = ExceptResult(2)
    /\ results.status = "success"
    /\ results.errors = <<>>

\* C27: with the character span located for a chunk and the recorded page
\* offsets, page_number is the first page, in page order, whose characters
\* the span shares; is_cross_page is true exactly when the span shares
\* characters with more than one page; spans_pages is set exactly then and
\* lists every such page in ascending page order; a span that shares no
\* character with any page gets the first collected page and is_cross_page
\* false.
SpanPositions(k) == chunk_meta[k].start_char..(chunk_meta[k].end_char - 1)

PagePositions(j) == page_mappings[j].start_char..(page_mappings[j].end_char - 1)

OverlappingPages(k) ==
    { j \in 1..Len(page_mappings) : SpanPositions(k) \cap PagePositions(j) # {} }

FirstOverlapping(k) ==
    CHOOSE j \in OverlappingPages(k) : \A l \in OverlappingPages(k) : j <= l

C27_PagesOfSpan ==
    cpc = "returned" =>
        \A k \in 1..Len(chunk_meta) :
            IF OverlappingPages(k) # {}
            THEN /\ chunk_meta[k].page_number =
                        page_mappings[FirstOverlapping(k)].page_number
                 /\ chunk_meta[k].is_cross_page =
                        (Cardinality(OverlappingPages(k)) > 1)
                 /\ (chunk_meta[k].spans_pages # <<>>) =
                        chunk_meta[k].is_cross_page
                 /\ chunk_meta[k].is_cross_page =>
                        /\ { chunk_meta[k].spans_pages[n] :
                                 n \in 1..Len(chunk_meta[k].spans_pages) } =
                           { page_mappings[j].page_number :
                                 j \in OverlappingPages(k) }
                        /\ \A n \in 1..(Len(chunk_meta[k].spans_pages) - 1) :
                               chunk_meta[k].spans_pages[n] <
                                   chunk_meta[k].spans_pages[n + 1]
            ELSE /\ chunk_meta[k].page_number = pages_content[1].page_number
                 /\ chunk_meta[k].is_cross_page = FALSE
                 /\ chunk_meta[k].spans_pages = <<>>

\* One returned list holds a chunk over two pages, a chunk within one page and
\* a chunk whose span shares no character with any page.
C27_Witness ==
    /\ cpc = "returned"
    /\ \E k \in 1..Len(chunk_meta) : Cardinality(OverlappingPages(k)) > 1
    /\ \E k \in 1..Len(chunk_meta) : Cardinality(OverlappingPages(k)) = 1
    /\ \E k \in 1..Len(chunk_meta) : OverlappingPages(k) = {}

\* C28: a slot of the results array is written once, by the worker of its own
\* page: a step of page i's worker changes no other slot, and a result that
\* has been stored for a page is never replaced afterwards, so the result of
\* an extractor that succeeded is the one reported, whatever the progress
\* callback does.
SlotsKept ==
    \A i \in 1..Len(page_results) :
        page_results[i] # NoneResult => page_results'[i] = page_results[i]

C28_SlotWrittenOnce == [][pc = "waiting" => SlotsKept]_vars

\* C30: in the chunk list of one document as it is handed to the storage
\* layer, no two chunks have the same key (source_document, page_number,
\* paragraph_number), the key the storage point id is derived from, also
\* when two chunks have the same text or the same token range.
PointKey(k) ==
    <<"source_document", chunk_meta[k].page_number, chunks[k].paragraph_number>>

C30_DistinctPointKeys ==
    cpc = "returned" =>
        \A k, l \in 1..Len(chunks) : k # l => PointKey(k) # PointKey(l)

SameWindow(k, l) ==
    /\ chunks[k].start_token = chunks[l].start_token
    /\ chunks[k].end_token = chunks[l].end_token

\* Two chunks of the returned list have the same token range, hence the same
\* text, and the same page.
C30_Witness ==
    /\ cpc = "returned"
    /\ \E k, l \in 1..Len(chunks) :
          /\ k # l
          /\ SameWindow(k, l)
          /\ ChunkText(chunks[k]) = ChunkText(chunks[l])
          /\ chunk_meta[k].page_number = chunk_meta[l].page_number

\* C29: under fair scheduling, if every extractor call returns or raises,
\* process_document returns; when it returns no page extraction is in flight
\* and every page of the document has a result; if an extractor call never
\* returns, the other pages still complete and process_document never
\* returns.
NoHang == \A i \in 1..Len(doc.pages) : doc.pages[i].outcome # "hangs"

Returned == pc = "done"

AllPagesHaveResult ==
    /\ Len(results.pages) = Len(doc.pages)
    /\ \A i \in 1..Len(results.pages) : results.pages[i] # NoneResult

C29_ReturnsWhenCallsReturn == NoHang => <>Returned

C29_CompleteAtReturn == [](Returned => (InFlight = {} /\ AllPagesHaveResult))

Returns(i) ==
    IF i \in 1..Len(doc.pages) THEN doc.pages[i].outcome # "hangs" ELSE FALSE

PageDone(i) == IF i \in 1..Len(ppc) THEN ppc[i] = "done" ELSE FALSE

C29_HangBlocksReturn ==
    /\ []((pc = "waiting" /\ ~NoHang) => [](pc = "waiting"))
    /\ \A i \in 1..MaxHangPages :
          []((pc = "waiting" /\ Returns(i)) => <>PageDone(i))

C29_TerminationAndHang ==
    /\ C29_ReturnsWhenCallsReturn
    /\ C29_CompleteAtReturn
    /\ C29_HangBlocksReturn

\* The same, for the returns that follow the pool: no stage call of the
\* progress callback raised before the pages were dispatched.
DispatchReached == ppc # <<>>

C29_CompleteAfterPool ==
    [](Returned /\ DispatchReached => (InFlight = {} /\ AllPagesHaveResult))

\* One page is held by its extractor call while the other has completed.
C29_HangReached ==
    /\ pc = "waiting"
    /\ Len(ppc) = 2
    /\ \E i, j \in 1..2 :
          /\ doc.pages[i].outcome = "hangs"
          /\ ppc[i] = "running"
          /\ ppc[j] = "done"

====
